---- MODULE Spec2Model ----
(***************************************************************************)
(* Model of the decision-tree learner and its random-forest wrapper        *)
(* (src/src/supervised/trees/decision-tree.js, random-forest.js), and of   *)
(* the event listeners of the canvas (src/unnamed/part_000).               *)
(*                                                                         *)
(* Numbers.  Feature values and split values are integers counting         *)
(* quarters (the JavaScript number 1.5 is the integer 6), so that the      *)
(* midpoint of two feature values that are multiples of one half is exact. *)
(* Impurities are exact fractions [n, d] with d > 0.  Math.log is the      *)
(* fixed-point table LnMicro (natural logarithm in millionths).            *)
(* Feature indices are 0-based as in the source; TLA+ sequences are        *)
(* 1-based, so feature f of row x is x[f + 1].                             *)
(***************************************************************************)
EXTENDS Integers, Sequences, FiniteSets, TLC

VARIABLES self, call, data, trainCalled, canvas, canvasCall, frames, build

(* The classifier object with its caller's data and last call, and the     *)
(* Canvas object with the last call made on it.                            *)
classifierVars == <<self, call, data, trainCalled>>

canvasVars == <<canvas, canvasCall>>

(* The pending calls of buildTree of a train in progress, and how far the  *)
(* recursion has got.                                                      *)
buildVars == <<frames, build>>

vars == <<self, call, data, trainCalled, canvas, canvasCall, frames, build>>

(* The JavaScript value undefined. *)
Undefined == [type |-> "undefined"]

-----------------------------------------------------------------------------
(* Exact fractions. *)

RECURSIVE Gcd(_, _)
Gcd(a, b) == IF b = 0 THEN a ELSE Gcd(b, a % b)

Abs(a) == IF a < 0 THEN -a ELSE a

Frac(n, d) ==
  LET g == Gcd(Abs(n), d) IN [n |-> n \div g, d |-> d \div g]

Zero == [n |-> 0, d |-> 1]

FracAdd(a, b) == Frac(a.n * b.d + b.n * a.d, a.d * b.d)

FracSub(a, b) == Frac(a.n * b.d - b.n * a.d, a.d * b.d)

FracMul(a, b) == Frac(a.n * b.n, a.d * b.d)

FracLess(a, b) == a.n * b.d < b.n * a.d

(* -Infinity, the initial bestSplitGain. *)
NegInfinity == [n |-> -1, d |-> 0]

(* a > b for a finite a and b finite or -Infinity. *)
Greater(a, b) == IF b = NegInfinity THEN TRUE ELSE FracLess(b, a)

-----------------------------------------------------------------------------
(* Sequence helpers. *)

RECURSIVE SeqSum(_)
SeqSum(s) == IF s = <<>> THEN 0 ELSE Head(s) + SeqSum(Tail(s))

Range(s) == {s[i] : i \in 1..Len(s)}

(* The number of elements of s equal to v: labels.filter(x => x === v).length *)
Count(s, v) == Cardinality({i \in 1..Len(s) : s[i] = v})

(* Arrays.unique: the distinct values of an array, in order of first       *)
(* occurrence.                                                             *)
RECURSIVE Unique(_)
Unique(s) ==
  IF s = <<>> THEN <<>>
  ELSE LET init == Unique(SubSeq(s, 1, Len(s) - 1))
           last == s[Len(s)]
       IN IF last \in Range(init) THEN init ELSE Append(init, last)

(* Arrays.valueCounts: [value, count] pairs, one per distinct value, in    *)
(* order of first occurrence.                                              *)
ValueCounts(s) ==
  LET u == Unique(s) IN [i \in 1..Len(u) |-> <<u[i], Count(s, u[i])>>]

(* sampleValues.sort((a, b) => (a > b) * 2 - 1): ascending order of        *)
(* distinct numbers.                                                       *)
RECURSIVE SortAscending(_)
SortAscending(s) ==
  IF s = <<>> THEN <<>>
  ELSE LET m == CHOOSE v \in Range(s) : \A w \in Range(s) : v <= w
       IN <<m>> \o SortAscending(SelectSeq(s, LAMBDA v : v # m))

(* Arrays.getShape(X)[1]: the number of columns of a non-empty matrix. *)
NumColumns(X) == Len(X[1])

(* Arrays.transpose(X)[fInd]: column fInd of the matrix. *)
Column(X, fInd) == [i \in 1..Len(X) |-> X[i][fInd + 1]]

-----------------------------------------------------------------------------
(* Impurity Evaluator. *)

(* Math.log of k / n for integers 1 <= k <= n, in millionths: the table    *)
(* holds round(ln(i) * 10^6) for the primes and sums of those for the      *)
(* composites, so that ln(a * b) = ln(a) + ln(b) holds in the table.       *)
LnMicro == <<0, 693147, 1098612, 1386294, 1609438, 1791759, 1945910, 2079441>>

MathLog(k, n) == LnMicro[k] - LnMicro[n]

(* Mutant of Gini: the sum of frac * frac. *)
RECURSIVE GiniSquaresReduce(_, _, _)
GiniSquaresReduce(labels, uniqueLabels, r) ==
  IF uniqueLabels = <<>> THEN r
  ELSE LET frac == Frac(Count(labels, Head(uniqueLabels)), Len(labels))
       IN GiniSquaresReduce(labels, Tail(uniqueLabels), FracAdd(r, FracMul(frac, frac)))

GiniSquares(labels) == GiniSquaresReduce(labels, Unique(labels), Zero)

(* gini(labels): sum over the unique labels of frac * (1 - frac). *)
RECURSIVE GiniReduce(_, _, _)
GiniReduce(labels, uniqueLabels, r) ==
  IF uniqueLabels = <<>> THEN r
  ELSE LET frac == Frac(Count(labels, Head(uniqueLabels)), Len(labels))
       IN GiniReduce(labels, Tail(uniqueLabels),
                     FracAdd(r, FracMul(frac, FracSub(Frac(1, 1), frac))))

Gini(labels) == GiniReduce(labels, Unique(labels), Zero)

(* Mutant of Entropy: frac is the count, not divided by labels.length. *)
RECURSIVE EntropyCountsReduce(_, _, _)
EntropyCountsReduce(labels, uniqueLabels, r) ==
  IF uniqueLabels = <<>> THEN r
  ELSE LET k == Count(labels, Head(uniqueLabels))
       IN EntropyCountsReduce(labels, Tail(uniqueLabels),
                              FracSub(r, FracMul(Frac(k, 1), Frac(MathLog(k, 1), 1))))

EntropyCounts(labels) == EntropyCountsReduce(labels, Unique(labels), Zero)

(* entropy(labels): sum over the unique labels of -frac * Math.log(frac),  *)
(* in millionths.                                                          *)
RECURSIVE EntropyReduce(_, _, _)
EntropyReduce(labels, uniqueLabels, r) ==
  IF uniqueLabels = <<>> THEN r
  ELSE LET k == Count(labels, Head(uniqueLabels))
           frac == Frac(k, Len(labels))
       IN EntropyReduce(labels, Tail(uniqueLabels),
                        FracSub(r, FracMul(frac, Frac(MathLog(k, Len(labels)), 1))))

Entropy(labels) == EntropyReduce(labels, Unique(labels), Zero)

(* calculateWeightedImpurity: sum of impurity(group) * group.length /      *)
(* numElements.  Called only with numElements > 0.                         *)
RECURSIVE WeightedReduce(_, _, _, _, _)
WeightedReduce(groups, impurities, numElements, i, r) ==
  IF i > Len(groups) THEN r
  ELSE WeightedReduce(groups, impurities, numElements, i + 1,
                      FracAdd(r, FracMul(impurities[i],
                                         Frac(Len(groups[i]), numElements))))

(* impurityCallback(group) for the callbacks this.gini and this.entropy. *)
CallImpurity(impurityCallback, labels) ==
  IF impurityCallback = "gini" THEN Gini(labels) ELSE Entropy(labels)

CalculateWeightedImpurity(groups, impurityCallback) ==
  LET impurities == [i \in 1..Len(groups) |-> CallImpurity(impurityCallback, groups[i])]
      numElements == SeqSum([i \in 1..Len(groups) |-> Len(groups[i])])
  IN WeightedReduce(groups, impurities, numElements, 1, Zero)

(* calculateImpurity; this.criterion is 'gini' or 'entropy'. *)
CalculateImpurity(this, groups) ==
  IF this.criterion = "gini" THEN CalculateWeightedImpurity(groups, "gini")
  ELSE CalculateWeightedImpurity(groups, "entropy")

-----------------------------------------------------------------------------
(* Splitter. *)

(* Mutant of SplitSamples: the else is missing, every sample is pushed to  *)
(* the second group.                                                      *)
SplitSamplesRightKeepsAll(XSub, ySub, fInd, splitValue) ==
  LET all == [i \in 1..Len(XSub) |-> i]
      lo == SelectSeq(all, LAMBDA i : XSub[i][fInd + 1] < splitValue)
      Pick(idx, s) == [j \in 1..Len(idx) |-> s[idx[j]]]
  IN [indices |-> << [j \in 1..Len(lo) |-> lo[j] - 1],
                     [j \in 1..Len(all) |-> all[j] - 1] >>,
      features |-> << Pick(lo, XSub), XSub >>,
      labels |-> << Pick(lo, ySub), ySub >>]

(* Mutant of SplitSamples: the loop stops one sample short. *)
SplitSamplesSkipsLast(XSub, ySub, fInd, splitValue) ==
  LET all == [i \in 1..(Len(XSub) - 1) |-> i]
      lo == SelectSeq(all, LAMBDA i : XSub[i][fInd + 1] < splitValue)
      hi == SelectSeq(all, LAMBDA i : ~(XSub[i][fInd + 1] < splitValue))
      Pick(idx, s) == [j \in 1..Len(idx) |-> s[idx[j]]]
  IN [indices |-> << [j \in 1..Len(lo) |-> lo[j] - 1],
                     [j \in 1..Len(hi) |-> hi[j] - 1] >>,
      features |-> << Pick(lo, XSub), Pick(hi, XSub) >>,
      labels |-> << Pick(lo, ySub), Pick(hi, ySub) >>]

(* splitSamples: samples whose feature fInd is lower than splitValue go to *)
(* the first group, the others to the second; indices are 0-based.         *)
SplitSamples(XSub, ySub, fInd, splitValue) ==
  LET all == [i \in 1..Len(XSub) |-> i]
      lo == SelectSeq(all, LAMBDA i : XSub[i][fInd + 1] < splitValue)
      hi == SelectSeq(all, LAMBDA i : ~(XSub[i][fInd + 1] < splitValue))
      Pick(idx, s) == [j \in 1..Len(idx) |-> s[idx[j]]]
  IN [indices |-> << [j \in 1..Len(lo) |-> lo[j] - 1],
                     [j \in 1..Len(hi) |-> hi[j] - 1] >>,
      features |-> << Pick(lo, XSub), Pick(hi, XSub) >>,
      labels |-> << Pick(lo, ySub), Pick(hi, ySub) >>]

(* Mutant of SplitValues: the unique sample values are not sorted. *)
SplitValuesUnsorted(XSub, fInd) ==
  LET sampleValues == Unique(Column(XSub, fInd))
  IN [i \in 1..(Len(sampleValues) - 1) |->
        (sampleValues[i + 1] + sampleValues[i]) \div 2]

(* Mutant of SplitValues: the sums are not scaled by 0.5. *)
SplitValuesUnscaled(XSub, fInd) ==
  LET sampleValues == SortAscending(Unique(Column(XSub, fInd)))
  IN [i \in 1..(Len(sampleValues) - 1) |-> sampleValues[i + 1] + sampleValues[i]]

(* The split values of one feature: the averages of consecutive sorted     *)
(* unique sample values, (s[i + 1] + s[i]) * 0.5.                          *)
SplitValues(XSub, fInd) ==
  LET sampleValues == SortAscending(Unique(Column(XSub, fInd)))
  IN [i \in 1..(Len(sampleValues) - 1) |->
        (sampleValues[i + 1] + sampleValues[i]) \div 2]

(* The (fInd, splitValue) pairs in the order the two nested forEach loops  *)
(* of findSplit visit them.                                                *)
RECURSIVE SplitCandidates(_, _)
SplitCandidates(XSub, fIndices) ==
  IF fIndices = <<>> THEN <<>>
  ELSE LET fInd == Head(fIndices)
           splitValues == SplitValues(XSub, fInd)
       IN [i \in 1..Len(splitValues) |-> <<fInd, splitValues[i]>>]
          \o SplitCandidates(XSub, Tail(fIndices))

(* Mutant of FindSplitLoop: gain >= bestSplitGain, the last of the best. *)
RECURSIVE FindSplitLoopLastBest(_, _, _, _, _, _)
FindSplitLoopLastBest(this, XSub, ySub, baseImpurity, candidates, best) ==
  IF candidates = <<>> THEN best
  ELSE LET fInd == Head(candidates)[1]
           splitValue == Head(candidates)[2]
           groups == SplitSamples(XSub, ySub, fInd, splitValue)
           impurity == CalculateImpurity(this, groups.labels)
           gain == FracSub(baseImpurity, impurity)
           next ==
             IF /\ ~Greater(best.bestSplitGain, gain)
                /\ Len(groups.features[1]) > 0
                /\ Len(groups.features[2]) > 0
             THEN [bestSplitGain |-> gain,
                   accepted |-> <<[feature |-> fInd,
                                   featureValue |-> splitValue,
                                   groups |-> groups]>>]
             ELSE best
       IN FindSplitLoopLastBest(this, XSub, ySub, baseImpurity, Tail(candidates), next)

(* The body of the inner loop of findSplit, over the remaining candidates. *)
RECURSIVE FindSplitLoop(_, _, _, _, _, _)
FindSplitLoop(this, XSub, ySub, baseImpurity, candidates, best) ==
  IF candidates = <<>> THEN best
  ELSE LET fInd == Head(candidates)[1]
           splitValue == Head(candidates)[2]
           groups == SplitSamples(XSub, ySub, fInd, splitValue)
           impurity == CalculateImpurity(this, groups.labels)
           gain == FracSub(baseImpurity, impurity)
           next ==
             IF /\ Greater(gain, best.bestSplitGain)
                /\ Len(groups.features[1]) > 0
                /\ Len(groups.features[2]) > 0
             THEN [bestSplitGain |-> gain,
                   accepted |-> <<[feature |-> fInd,
                                   featureValue |-> splitValue,
                                   groups |-> groups]>>]
             ELSE best
       IN FindSplitLoop(this, XSub, ySub, baseImpurity, Tail(candidates), next)

(* findSplit for one outcome fIndices of Random.sample.  The result is     *)
(* <<split>> when a split was accepted and <<>> when bestSplitFeature,     *)
(* bestSplitFeatureValue and bestSplitGroups are all still undefined.      *)
FindSplit(this, XSub, ySub, baseImpurity, fIndices) ==
  FindSplitLoop(this, XSub, ySub, baseImpurity,
                SplitCandidates(XSub, fIndices),
                [bestSplitGain |-> NegInfinity, accepted |-> <<>>]).accepted

-----------------------------------------------------------------------------
(* Random sampler. *)

(* Random.sample(population, k, false): every sequence of k distinct       *)
(* elements of the population is a possible outcome.                       *)
RECURSIVE SampleWithoutReplacement(_, _)
SampleWithoutReplacement(population, k) ==
  IF k <= 0 THEN {<<>>}
  ELSE UNION {{<<v>> \o rest : rest \in SampleWithoutReplacement(population \ {v}, k - 1)}
              : v \in population}

(* Random.sample(population, k, true): every sequence of k elements of the *)
(* population is a possible outcome.                                       *)
SampleWithReplacement(population, k) == [1..k -> population]

-----------------------------------------------------------------------------
(* Tree Builder. *)

(* What buildTree and train produce when an exception leaves them. *)
TypeError == [type |-> "TypeError"]

(* Mutant of MajorityReduce: x[1] >= r[1], the last of the largest counts. *)
RECURSIVE MajorityReduceLast(_, _)
MajorityReduceLast(counts, r) ==
  IF counts = <<>> THEN r
  ELSE MajorityReduceLast(Tail(counts), IF Head(counts)[2] >= r[2] THEN Head(counts) ELSE r)

(* Arrays.valueCounts(ySub).reduce((r, x) => (x[1] > r[1] ? x : r))[0] *)
RECURSIVE MajorityReduce(_, _)
MajorityReduce(counts, r) ==
  IF counts = <<>> THEN r
  ELSE MajorityReduce(Tail(counts), IF Head(counts)[2] > r[2] THEN Head(counts) ELSE r)

MajorityLabel(ySub) ==
  LET counts == ValueCounts(ySub) IN MajorityReduce(Tail(counts), Head(counts))[1]

(* Mutant of BuildTree: depth > this.maxDepth, the limit is applied one    *)
(* level too late.                                                         *)
RECURSIVE BuildTreeOneDeeper(_, _, _, _)
BuildTreeOneDeeper(this, XSub, ySub, depth) ==
  LET impurity == CalculateImpurity(this, <<ySub>>) IN
  IF impurity = Zero
  THEN {[type |-> "leaf", impurity |-> impurity, prediction |-> ySub[1]]}
  ELSE IF this.maxDepth >= 0 /\ depth > this.maxDepth
  THEN {[type |-> "leaf", impurity |-> impurity, prediction |-> MajorityLabel(ySub)]}
  ELSE UNION {
    LET split == FindSplit(this, XSub, ySub, impurity, fIndices) IN
    IF split = <<>> THEN {TypeError}
    ELSE LET groups == split[1].groups
             lefts == BuildTreeOneDeeper(this, groups.features[1], groups.labels[1], depth + 1)
             rights == BuildTreeOneDeeper(this, groups.features[2], groups.labels[2], depth + 1)
         IN {IF left = TypeError \/ right = TypeError THEN TypeError
             ELSE [type |-> "node", impurity |-> impurity,
                   feature |-> split[1].feature,
                   featureValue |-> split[1].featureValue,
                   left |-> left, right |-> right]
             : left \in lefts, right \in rights}
    : fIndices \in SampleWithoutReplacement(0..(NumColumns(XSub) - 1),
                                               this.numFeaturesInt.value)}

(* buildTree: the set of nodes it can return, one per outcome of the       *)
(* feature samples drawn in findSplit at each node; TypeError stands for   *)
(* the exception raised by reading groups.features of an undefined groups. *)
RECURSIVE BuildTree(_, _, _, _)
BuildTree(this, XSub, ySub, depth) ==
  LET impurity == CalculateImpurity(this, <<ySub>>) IN
  IF impurity = Zero
  THEN {[type |-> "leaf", impurity |-> impurity, prediction |-> ySub[1]]}
  ELSE IF this.maxDepth >= 0 /\ depth >= this.maxDepth
  THEN {[type |-> "leaf", impurity |-> impurity, prediction |-> MajorityLabel(ySub)]}
  ELSE UNION {
    LET split == FindSplit(this, XSub, ySub, impurity, fIndices) IN
    IF split = <<>> THEN {TypeError}
    ELSE LET groups == split[1].groups
             lefts == BuildTree(this, groups.features[1], groups.labels[1], depth + 1)
             rights == BuildTree(this, groups.features[2], groups.labels[2], depth + 1)
         IN {IF left = TypeError \/ right = TypeError THEN TypeError
             ELSE [type |-> "node", impurity |-> impurity,
                   feature |-> split[1].feature,
                   featureValue |-> split[1].featureValue,
                   left |-> left, right |-> right]
             : left \in lefts, right \in rights}
    : fIndices \in SampleWithoutReplacement(0..(NumColumns(XSub) - 1),
                                               this.numFeaturesInt.value)}

(* Math.floor(Math.sqrt(n)) *)
FloorSqrt(n) == CHOOSE k \in 0..n : k * k <= n /\ n < (k + 1) * (k + 1)

(* Math.floor(Math.log2(n)) for n >= 1 *)
FloorLog2(n) == CHOOSE k \in 0..n : 2 ^ k <= n /\ n < 2 ^ (k + 1)

Min(a, b) == IF a < b THEN a ELSE b

Max(a, b) == IF a > b THEN a ELSE b

(* The numFeaturesInt that train computes for a matrix of n columns.  A    *)
(* numeric numFeatures is held in quarters (1.0 is 4).                    *)
NumFeaturesInt(numFeatures, n) ==
  IF numFeatures.kind = "sqrt" THEN FloorSqrt(n)
  ELSE IF numFeatures.kind = "log2" THEN FloorLog2(n)
  ELSE Max(1, Min(n, (numFeatures.quarters * n) \div 4))

(* The error thrown by train for X.length !== y.length and the one thrown  *)
(* by predict on an untrained model.                                       *)
DimensionError == [type |-> "Error", message |-> "Number of data points should match number of labels."]

UntrainedError == [type |-> "Error", message |-> "Model has to be trained in order to make predictions."]

(* new DecisionTree(options) *)
NewDecisionTree(criterion, numFeatures, maxDepth) ==
  [class |-> "DecisionTree", criterion |-> criterion, numFeatures |-> numFeatures,
   maxDepth |-> maxDepth, numFeaturesInt |-> Undefined, tree |-> Undefined]

(* DecisionTree.train(X, y): the set of possible outcomes, each the object *)
(* after the call and what the call threw (Undefined for a normal return). *)
DecisionTreeTrain(this, X, y) ==
  IF Len(X) # Len(y) THEN {[this |-> this, thrown |-> DimensionError]}
  ELSE LET configured == [this EXCEPT !.numFeaturesInt =
                            [type |-> "number", value |-> NumFeaturesInt(this.numFeatures, NumColumns(X))]]
       IN {IF node = TypeError
           THEN [this |-> configured, thrown |-> TypeError]
           ELSE [this |-> [configured EXCEPT !.tree = node], thrown |-> Undefined]
           : node \in BuildTree(configured, X, y, 0)}

-----------------------------------------------------------------------------
(* Tree Predictor. *)

(* Mutant of FeatureLess: the comparison is reversed. *)
FeatureNotLess(sampleFeatures, feature, featureValue) ==
  feature + 1 <= Len(sampleFeatures) /\ sampleFeatures[feature + 1] >= featureValue

(* sampleFeatures[feature] < featureValue; a missing element is undefined  *)
(* and undefined < number is false.                                        *)
FeatureLess(sampleFeatures, feature, featureValue) ==
  feature + 1 <= Len(sampleFeatures) /\ sampleFeatures[feature + 1] < featureValue

RECURSIVE Walk(_, _)
Walk(node, sampleFeatures) ==
  IF node.type = "node"
  THEN Walk(IF FeatureLess(sampleFeatures, node.feature, node.featureValue)
            THEN node.left ELSE node.right, sampleFeatures)
  ELSE node.prediction

(* DecisionTree.predictSample: the label, or TypeError when this.tree is   *)
(* undefined (node.type is read of undefined).                             *)
DecisionTreePredictSample(this, sampleFeatures) ==
  IF this.tree = Undefined THEN TypeError
  ELSE [type |-> "label", value |-> Walk(this.tree, sampleFeatures)]

(* Mutant of DecisionTreePredict: the typeof this.tree check is missing,   *)
(* predictSample reads node.type of undefined.                             *)
DecisionTreePredictUnchecked(this, X) ==
  IF this.tree = Undefined /\ X # <<>>
  THEN [thrown |-> TypeError, returned |-> Undefined]
  ELSE [thrown |-> Undefined,
        returned |-> [type |-> "array",
                      values |-> [i \in 1..Len(X) |-> Walk(this.tree, X[i])]]]

(* DecisionTree.predict(X): the returned array, or what it threw. *)
DecisionTreePredict(this, X) ==
  IF this.tree = Undefined THEN [thrown |-> UntrainedError, returned |-> Undefined]
  ELSE [thrown |-> Undefined,
        returned |-> [type |-> "array",
                      values |-> [i \in 1..Len(X) |-> DecisionTreePredictSample(this, X[i]).value]]]

-----------------------------------------------------------------------------
(* Random Forest Ensemble. *)

(* new RandomForest(options) *)
NewRandomForest(criterion, numFeatures, maxDepth, numTrees, bootstrap) ==
  [class |-> "RandomForest", criterion |-> criterion, numFeatures |-> numFeatures,
   maxDepth |-> maxDepth, numTrees |-> numTrees, bootstrap |-> bootstrap,
   trees |-> Undefined]

(* Mutant of TreeSamples: the labels are not resampled, treeY = y. *)
TreeSamplesLabelsInOrder(this, X, y) ==
  IF this.bootstrap
  THEN {[treeX |-> [j \in 1..Len(X) |-> X[treeSamples[j] + 1]], treeY |-> y]
        : treeSamples \in SampleWithReplacement(0..(Len(X) - 1), Len(X))}
  ELSE {[treeX |-> X, treeY |-> y]}

(* The selection of the input samples of one tree in RandomForest.train:  *)
(* the possible (treeX, treeY), one per outcome of Random.sample.         *)
TreeSamples(this, X, y) ==
  IF this.bootstrap
  THEN {[treeX |-> [j \in 1..Len(X) |-> X[treeSamples[j] + 1]],
         treeY |-> [j \in 1..Len(X) |-> y[treeSamples[j] + 1]]]
        : treeSamples \in SampleWithReplacement(0..(Len(X) - 1), Len(X))}
  ELSE {[treeX |-> X, treeY |-> y]}

(* Mutant of RandomForestTreeTrain: maxDepth is not passed to the tree,    *)
(* which keeps its default -1.                                             *)
RandomForestTreeTrainDefaultDepth(this, X, y) ==
  LET tree == NewDecisionTree(this.criterion, this.numFeatures, -1) IN
  UNION {DecisionTreeTrain(tree, sample.treeX, sample.treeY)
         : sample \in TreeSamples(this, X, y)}

(* One iteration of the loop of RandomForest.train up to tree.train: the   *)
(* possible outcomes of constructing a tree, selecting its samples and     *)
(* training it.                                                            *)
RandomForestTreeTrain(this, X, y) ==
  LET tree == NewDecisionTree(this.criterion, this.numFeatures, this.maxDepth) IN
  UNION {DecisionTreeTrain(tree, sample.treeX, sample.treeY)
         : sample \in TreeSamples(this, X, y)}

(* Mutant of RandomForestTrainLoop: i <= this.numTrees, one tree more. *)
RECURSIVE RandomForestTrainLoopOneMore(_, _, _)
RandomForestTrainLoopOneMore(this, treeOutcomes, i) ==
  IF ~(i <= this.numTrees) THEN {[this |-> this, thrown |-> Undefined]}
  ELSE UNION {
    IF outcome.thrown # Undefined
    THEN {[this |-> this, thrown |-> outcome.thrown]}
    ELSE RandomForestTrainLoopOneMore(
           [this EXCEPT !.trees.values = Append(@, outcome.this)], treeOutcomes, i + 1)
    : outcome \in treeOutcomes}

(* The loop of RandomForest.train from iteration i on; this.trees holds    *)
(* the trees pushed so far, treeOutcomes the outcomes of one iteration.    *)
RECURSIVE RandomForestTrainLoop(_, _, _)
RandomForestTrainLoop(this, treeOutcomes, i) ==
  IF ~(i < this.numTrees) THEN {[this |-> this, thrown |-> Undefined]}
  ELSE UNION {
    IF outcome.thrown # Undefined
    THEN {[this |-> this, thrown |-> outcome.thrown]}
    ELSE RandomForestTrainLoop(
           [this EXCEPT !.trees.values = Append(@, outcome.this)], treeOutcomes, i + 1)
    : outcome \in treeOutcomes}

(* Mutant of RandomForestTrain: this.trees is reset before the lengths are *)
(* compared.                                                               *)
RandomForestTrainResetsFirst(this, X, y) ==
  LET reset == [this EXCEPT !.trees = [type |-> "array", values |-> <<>>]] IN
  IF Len(X) # Len(y) THEN {[this |-> reset, thrown |-> DimensionError]}
  ELSE RandomForestTrainLoop(reset, RandomForestTreeTrain(this, X, y), 0)

(* RandomForest.train(X, y): the set of possible outcomes. *)
RandomForestTrain(this, X, y) ==
  IF Len(X) # Len(y) THEN {[this |-> this, thrown |-> DimensionError]}
  ELSE RandomForestTrainLoop([this EXCEPT !.trees = [type |-> "array", values |-> <<>>]],
                             RandomForestTreeTrain(this, X, y), 0)

(* Mutant of MostVotes: x[1] >= r[1], the last of the largest counts. *)
MostVotesLast(predictions) == MajorityReduceLast(ValueCounts(predictions), <<-1, -1>>)[1]

(* predictionCounts.reduce((r, x) => (x[1] > r[1] ? x : r), [-1, -1])[0] *)
MostVotes(predictions) == MajorityReduce(ValueCounts(predictions), <<-1, -1>>)[1]

(* RandomForest.predictSample: the label, or TypeError when this.trees is  *)
(* undefined.  Every tree in this.trees has been trained.                  *)
RandomForestPredictSample(this, sampleFeatures) ==
  IF this.trees = Undefined THEN TypeError
  ELSE LET predictions ==
             [i \in 1..Len(this.trees.values) |->
                DecisionTreePredictSample(this.trees.values[i], sampleFeatures).value]
       IN [type |-> "label", value |-> MostVotes(predictions)]

(* RandomForest.predict(X): the returned array, or what it threw. *)
RandomForestPredict(this, X) ==
  IF this.trees = Undefined THEN [thrown |-> UntrainedError, returned |-> Undefined]
  ELSE [thrown |-> Undefined,
        returned |-> [type |-> "array",
                      values |-> [i \in 1..Len(X) |-> RandomForestPredictSample(this, X[i]).value]]]

-----------------------------------------------------------------------------
(* The Classifier contract: train and predict of either class. *)

ClassifierTrain(this, X, y) ==
  IF this.class = "DecisionTree" THEN DecisionTreeTrain(this, X, y)
  ELSE RandomForestTrain(this, X, y)

ClassifierPredict(this, X) ==
  IF this.class = "DecisionTree" THEN DecisionTreePredict(this, X)
  ELSE RandomForestPredict(this, X)

ClassifierPredictSample(this, sampleFeatures) ==
  IF this.class = "DecisionTree" THEN DecisionTreePredictSample(this, sampleFeatures)
  ELSE RandomForestPredictSample(this, sampleFeatures)

(* typeof this.tree !== 'undefined', respectively this.trees *)
IsTrained(this) ==
  IF this.class = "DecisionTree" THEN this.tree # Undefined ELSE this.trees # Undefined

-----------------------------------------------------------------------------
(* The inputs of the model. *)

(* The largest number of rows of an enumerated training set. *)
MaxSamples == 2

Criteria == {"gini", "entropy"}

(* numFeatures: the fractions 0.5 and 1.0, 'sqrt' and 'log2'. *)
NumFeaturesOptions ==
  {[kind |-> "number", quarters |-> 2], [kind |-> "number", quarters |-> 4],
   [kind |-> "sqrt"], [kind |-> "log2"]}

MaxDepths == {-1, 0, 1}

NumTreesOptions == {0, 1, 2}

Labels == {0, 1}

(* Feature values 0 and 1, in quarters. *)
FeatureValues == {0, 4}

NumFeaturesOfData == {1, 2}

(* Every training set of 1..MaxSamples rows of 1 or 2 features whose first *)
(* label is 0 (the code only compares labels for equality).                *)
EnumeratedData ==
  UNION {UNION {{[X |-> X, y |-> y] : X \in [1..n -> [1..f -> FeatureValues]],
                                       y \in {l \in [1..n -> Labels] : l[1] = 0}}
                : n \in 1..MaxSamples}
         : f \in NumFeaturesOfData}

(* X = [[0],[1],[2],[3]], y = [0,0,1,1] *)
ScenarioData == [X |-> << <<0>>, <<4>>, <<8>>, <<12>> >>, y |-> <<0, 0, 1, 1>>]

(* Larger training sets: the scenario, exclusive or of two features, three *)
(* classes alternating on a line, and two equal rows with different labels *)
(* among four.                                                             *)
FixtureData ==
  {ScenarioData,
   [X |-> << <<0, 0>>, <<0, 4>>, <<4, 0>>, <<4, 4>> >>, y |-> <<0, 1, 1, 0>>],
   [X |-> << <<8>>, <<0>>, <<4>>, <<12>> >>, y |-> <<2, 1, 2, 1>>],
   [X |-> << <<0, 4>>, <<4, 4>>, <<4, 4>>, <<8, 4>> >>, y |-> <<0, 0, 1, 1>>]}

(* The training sets of the decision trees. *)
TreeData == EnumeratedData \cup FixtureData

(* The training sets of the random forests: separable data of one and of   *)
(* two features, and two equal rows with different labels.                 *)
ForestData ==
  {[X |-> << <<0>>, <<4>> >>, y |-> <<0, 1>>],
   [X |-> << <<0, 0>>, <<4, 4>>, <<4, 0>> >>, y |-> <<0, 1, 0>>],
   [X |-> << <<0>>, <<0>>, <<4>> >>, y |-> <<0, 1, 1>>]}

(* predict([[0.5],[2.5]]) *)
ScenarioProbe == << <<2>>, <<10>> >>

(* The arrays predict is called with: the training rows, and rows lying on *)
(* and between the training values, with as many features as the data.     *)
PredictInputs(d) ==
  {d.X, IF NumColumns(d.X) = 1 THEN ScenarioProbe
        ELSE << <<0, 4>>, <<4, 0>>, <<2, 2>> >>}

(* The sample predictSample is called with: a row lying between the       *)
(* training values, with as many features as the data.                    *)
PredictSampleInputs(d) ==
  {IF NumColumns(d.X) = 1 THEN ScenarioProbe[1] ELSE <<2, 2>>}

(* The arguments train is called with: the data, and the data with the     *)
(* last label or the last row missing.                                     *)
TrainInputs(d) ==
  {d, [X |-> d.X, y |-> SubSeq(d.y, 1, Len(d.y) - 1)],
      [X |-> SubSeq(d.X, 1, Len(d.X) - 1), y |-> d.y]}

DecisionTrees ==
  {NewDecisionTree(c, nf, md) : c \in Criteria, nf \in NumFeaturesOptions, md \in MaxDepths}

(* The forests: numFeatures 1.0 or 'sqrt', maxDepth -1 or 0. *)
RandomForests ==
  {NewRandomForest(c, nf, md, nt, b) :
     c \in Criteria, nf \in {[kind |-> "number", quarters |-> 4], [kind |-> "sqrt"]},
     md \in {-1, 0}, nt \in NumTreesOptions, b \in BOOLEAN}

-----------------------------------------------------------------------------
(* Canvas: the event listeners. *)

(* The most listeners added for one label. *)
MaxListeners == 2

(* The event identifiers and the callbacks the canvas is called with: two  *)
(* functions and a value that is not a function.                           *)
EventLabels == {"click", "resize"}

Callbacks == {"f", "g", "notAFunction"}

(* typeof x === 'function' *)
IsFunction(x) == x # "notAFunction"

(* new Canvas(el, options): this.listeners = new Map(); a label that is    *)
(* not in the map gets undefined.                                          *)
NewCanvas == [listeners |-> [label \in EventLabels |-> Undefined]]

(* addListener(label, callback) *)
CanvasAddListener(this, label, callback) ==
  LET listeners == IF this.listeners[label] = Undefined
                   THEN [type |-> "array", values |-> <<>>]
                   ELSE this.listeners[label]
  IN [this EXCEPT !.listeners[label] =
        [type |-> "array", values |-> Append(listeners.values, callback)]]

(* removeListener(label, callback) *)
CanvasRemoveListener(this, label, callback) ==
  LET listeners == this.listeners[label] IN
  IF listeners # Undefined
  THEN [this EXCEPT !.listeners[label] =
          [type |-> "array",
           values |-> SelectSeq(listeners.values,
                                LAMBDA x : ~(IsFunction(x) /\ x = callback))]]
  ELSE this

(* The listeners that forEach calls before one that is not a function      *)
(* throws, or all of them.                                                 *)
RECURSIVE Executed(_)
Executed(listeners) ==
  IF listeners = <<>> \/ ~IsFunction(Head(listeners)) THEN <<>>
  ELSE <<Head(listeners)>> \o Executed(Tail(listeners))

(* emit(label, ...args): the callbacks executed, and what it returned or   *)
(* threw.  The callbacks themselves do not touch the canvas.               *)
CanvasEmit(this, label) ==
  LET listeners == this.listeners[label] IN
  IF listeners # Undefined
  THEN LET executed == Executed(listeners.values) IN
       IF Len(executed) < Len(listeners.values)
       THEN [executed |-> executed, thrown |-> TypeError, returned |-> Undefined]
       ELSE [executed |-> executed, thrown |-> Undefined,
             returned |-> [type |-> "boolean", value |-> TRUE]]
  ELSE [executed |-> <<>>, thrown |-> Undefined,
        returned |-> [type |-> "boolean", value |-> FALSE]]

(* The number of listeners the canvas holds for the label. *)
NumListeners(this, label) ==
  IF this.listeners[label] = Undefined THEN 0 ELSE Len(this.listeners[label].values)

(* The last call on the canvas: none after construction. *)
NoCanvasCall ==
  [op |-> "new", label |-> "", callback |-> "", executed |-> <<>>,
   thrown |-> Undefined, returned |-> Undefined]

(* No train is in progress: no call of buildTree has been made. *)
NoBuild == [status |-> "idle", calls |-> 0]

-----------------------------------------------------------------------------
(* The state machine of the classifiers: one classifier object, the data   *)
(* its caller holds, and the last call made on the object.                 *)

Init ==
  /\ \/ self \in DecisionTrees /\ data \in TreeData
     \/ self \in RandomForests /\ data \in ForestData
  /\ call = [op |-> "new", X |-> <<>>, y |-> <<>>, thrown |-> Undefined,
             returned |-> Undefined]
  /\ trainCalled = FALSE
  /\ canvas = NewCanvas
  /\ canvasCall = NoCanvasCall
  /\ frames = <<>>
  /\ build = NoBuild

(* self.train(X, y) *)
Train ==
  \E input \in TrainInputs(data) :
    \E outcome \in ClassifierTrain(self, input.X, input.y) :
      /\ self' = outcome.this
      /\ call' = [op |-> "train", X |-> input.X, y |-> input.y,
                  thrown |-> outcome.thrown, returned |-> Undefined]
      /\ trainCalled' = TRUE
      /\ UNCHANGED <<data, canvasVars, buildVars>>

(* self.predict(X) *)
Predict ==
  \E X \in PredictInputs(data) :
    LET outcome == ClassifierPredict(self, X) IN
      /\ call' = [op |-> "predict", X |-> X, y |-> <<>>,
                  thrown |-> outcome.thrown, returned |-> outcome.returned]
      /\ UNCHANGED <<self, data, trainCalled, canvasVars, buildVars>>

(* self.findSplit(X, y, self.calculateImpurity([y])) on a decision tree    *)
(* whose numFeaturesInt has been set by train; the call records the        *)
(* fIndices that Random.sample returned to it.                             *)
FindSplitCall ==
  /\ self.class = "DecisionTree"
  /\ self.numFeaturesInt # Undefined
  /\ \E fIndices \in SampleWithoutReplacement(0..(NumColumns(data.X) - 1),
                                               self.numFeaturesInt.value) :
       call' = [op |-> "findSplit", X |-> data.X, y |-> data.y, thrown |-> Undefined,
                returned |-> [type |-> "split", fIndices |-> fIndices,
                              accepted |-> FindSplit(self, data.X, data.y,
                                             CalculateImpurity(self, <<data.y>>),
                                             fIndices)]]
  /\ UNCHANGED <<self, data, trainCalled, canvasVars, buildVars>>

(* self.predictSample(sampleFeatures) *)
PredictSample ==
  \E sampleFeatures \in PredictSampleInputs(data) :
    LET outcome == ClassifierPredictSample(self, sampleFeatures) IN
      /\ call' = [op |-> "predictSample", X |-> <<sampleFeatures>>, y |-> <<>>,
                  thrown |-> IF outcome = TypeError THEN TypeError ELSE Undefined,
                  returned |-> IF outcome = TypeError THEN Undefined ELSE outcome]
      /\ UNCHANGED <<self, data, trainCalled, canvasVars, buildVars>>

Next == Train \/ Predict \/ FindSplitCall \/ PredictSample

Spec == Init /\ [][Next]_vars

-----------------------------------------------------------------------------
(* The state machine of the canvas: one Canvas object and the last call    *)
(* made on it, next to a classifier that is not called.                    *)

InitCanvas ==
  /\ canvas = NewCanvas
  /\ canvasCall = NoCanvasCall
  /\ frames = <<>>
  /\ build = NoBuild
  /\ self = NewDecisionTree("gini", [kind |-> "number", quarters |-> 4], -1)
  /\ data = ScenarioData
  /\ call = [op |-> "new", X |-> <<>>, y |-> <<>>, thrown |-> Undefined,
             returned |-> Undefined]
  /\ trainCalled = FALSE

(* canvas.addListener(label, callback) *)
AddListener ==
  \E label \in EventLabels, callback \in Callbacks :
    /\ NumListeners(canvas, label) < MaxListeners
    /\ canvas' = CanvasAddListener(canvas, label, callback)
    /\ canvasCall' = [NoCanvasCall EXCEPT !.op = "addListener", !.label = label,
                                          !.callback = callback]
    /\ UNCHANGED <<classifierVars, buildVars>>

(* canvas.removeListener(label, callback) *)
RemoveListener ==
  \E label \in EventLabels, callback \in Callbacks :
    /\ canvas' = CanvasRemoveListener(canvas, label, callback)
    /\ canvasCall' = [NoCanvasCall EXCEPT !.op = "removeListener", !.label = label,
                                          !.callback = callback]
    /\ UNCHANGED <<classifierVars, buildVars>>

(* canvas.emit(label) *)
Emit ==
  \E label \in EventLabels :
    LET outcome == CanvasEmit(canvas, label) IN
      /\ canvasCall' = [op |-> "emit", label |-> label, callback |-> "",
                        executed |-> outcome.executed, thrown |-> outcome.thrown,
                        returned |-> outcome.returned]
      /\ UNCHANGED <<canvas, classifierVars, buildVars>>

NextCanvas == AddListener \/ RemoveListener \/ Emit

SpecCanvas == InitCanvas /\ [][NextCanvas]_vars

-----------------------------------------------------------------------------
(* The state machine of the recursion of buildTree: train(X, y) on a       *)
(* decision tree, one step per call of buildTree.  frames is the stack of  *)
(* the calls still to be made, the next one first; the nodes the calls     *)
(* return are those of BuildTree.                                          *)

(* train up to its call of buildTree(X, y): the lengths are equal and      *)
(* numFeaturesInt is set.                                                  *)
InitBuild ==
  /\ data \in TreeData
  /\ self \in {[tree EXCEPT !.numFeaturesInt =
                  [type |-> "number",
                   value |-> NumFeaturesInt(tree.numFeatures, NumColumns(data.X))]]
                : tree \in DecisionTrees}
  /\ call = [op |-> "new", X |-> <<>>, y |-> <<>>, thrown |-> Undefined,
             returned |-> Undefined]
  /\ trainCalled = TRUE
  /\ frames = <<[XSub |-> data.X, ySub |-> data.y, depth |-> 0]>>
  /\ build = [status |-> "running", calls |-> 0]
  /\ canvas = NewCanvas
  /\ canvasCall = NoCanvasCall

(* One call buildTree(XSub, ySub, depth): the possible outcomes, one per    *)
(* outcome of the sampler.  It returns a leaf and calls nothing, or        *)
(* findSplit accepts no split and reading groups.features throws, or it    *)
(* calls buildTree for the left group and then for the right group.        *)
BuildTreeCall(this, frame) ==
  LET impurity == CalculateImpurity(this, <<frame.ySub>>) IN
  IF impurity = Zero \/ (this.maxDepth >= 0 /\ frame.depth >= this.maxDepth)
  THEN {[thrown |-> FALSE, calls |-> <<>>]}
  ELSE {LET split == FindSplit(this, frame.XSub, frame.ySub, impurity, fIndices) IN
        IF split = <<>> THEN [thrown |-> TRUE, calls |-> <<>>]
        ELSE [thrown |-> FALSE,
              calls |-> <<[XSub |-> split[1].groups.features[1],
                           ySub |-> split[1].groups.labels[1],
                           depth |-> frame.depth + 1],
                          [XSub |-> split[1].groups.features[2],
                           ySub |-> split[1].groups.labels[2],
                           depth |-> frame.depth + 1]>>]
        : fIndices \in SampleWithoutReplacement(0..(NumColumns(frame.XSub) - 1),
                                                 this.numFeaturesInt.value)}

(* The pending call of buildTree is made; an exception ends the recursion. *)
BuildTreeStep ==
  /\ build.status = "running"
  /\ frames # <<>>
  /\ \E outcome \in BuildTreeCall(self, Head(frames)) :
       /\ frames' = IF outcome.thrown THEN <<>> ELSE outcome.calls \o Tail(frames)
       /\ build' = [status |-> IF outcome.thrown THEN "thrown"
                               ELSE IF outcome.calls \o Tail(frames) = <<>> THEN "returned"
                               ELSE "running",
                    calls |-> build.calls + 1]
  /\ UNCHANGED <<classifierVars, canvasVars>>

NextBuild == BuildTreeStep

(* A call of buildTree is pending: NextBuild is enabled exactly then.      *)
BuildPending == build.status = "running" /\ frames # <<>>

(* The calls are synchronous, a pending call of buildTree is made: weak    *)
(* fairness of NextBuild, written out with BuildPending for its            *)
(* enabledness.                                                            *)
BuildFairness == ([]<>~BuildPending) \/ ([]<><<NextBuild>>_vars)

SpecBuild == InitBuild /\ [][NextBuild]_vars /\ BuildFairness

-----------------------------------------------------------------------------
(* Properties. *)

(* The last call was train(X, y) with X.length = y.length. *)
TrainedWith == call.op = "train" /\ Len(call.X) = Len(call.y)

IsDecisionTree == self.class = "DecisionTree"

IsRandomForest == self.class = "RandomForest"

(* findSplit accepts no split at the root for some outcome of the sampler. *)
NoSplitAtRoot(this, X, y) ==
  \E fIndices \in SampleWithoutReplacement(0..(NumColumns(X) - 1),
                                           NumFeaturesInt(this.numFeatures, NumColumns(X))) :
    FindSplit(this, X, y, CalculateImpurity(this, <<y>>), fIndices) = <<>>

(* The labels with the highest count, first in the valueCounts order. *)
IsFirstMajority(label, y) ==
  LET counts == ValueCounts(y) IN
    \E i \in 1..Len(counts) :
      /\ counts[i][1] = label
      /\ \A j \in 1..Len(counts) : counts[j][2] <= counts[i][2]
      /\ \A j \in 1..(i - 1) : counts[j][2] < counts[i][2]

(* C1: DecisionTree.train never ends with an exception of buildTree: an    *)
(* impure node below the depth limit for which findSplit accepts no split  *)
(* becomes a leaf predicting the majority label.  Stated for the root: if  *)
(* the root is impure, maxDepth is not 0 and no split can be found at it   *)
(* whatever the sampler draws, train returns normally and the tree is the  *)
(* majority leaf.                                                          *)
C1_NoSplitGivesMajorityLeaf ==
  (/\ IsDecisionTree
   /\ TrainedWith
   /\ CalculateImpurity(self, <<call.y>>) # Zero
   /\ self.maxDepth # 0
   /\ NoSplitAtRoot(self, call.X, call.y))
  => /\ call.thrown = Undefined
     /\ self.tree.type = "leaf"
     /\ self.tree.prediction = MajorityLabel(call.y)

(* C2: after DecisionTree.train on a matrix of n >= 1 features, the        *)
(* numFeaturesInt of the tree is at least 1 and at most n.                 *)
C2_NumFeaturesIntInRange ==
  (IsDecisionTree /\ TrainedWith)
  => /\ self.numFeaturesInt # Undefined
     /\ self.numFeaturesInt.value >= 1
     /\ self.numFeaturesInt.value <= NumColumns(call.X)

(* C3: a split accepted by findSplit has a sample in each group, and the   *)
(* two groups hold every input sample exactly once, with its row and its   *)
(* label.                                                                  *)
C3_AcceptedSplitPartitions ==
  (call.op = "findSplit" /\ call.returned.accepted # <<>>)
  => LET groups == call.returned.accepted[1].groups
         left == groups.indices[1]
         right == groups.indices[2]
     IN /\ Len(left) >= 1
        /\ Len(right) >= 1
        /\ Len(left) + Len(right) = Len(call.X)
        /\ Range(left) \cup Range(right) = 0..(Len(call.X) - 1)
        /\ \A g \in 1..2 :
             /\ Len(groups.features[g]) = Len(groups.indices[g])
             /\ Len(groups.labels[g]) = Len(groups.indices[g])
             /\ \A j \in 1..Len(groups.indices[g]) :
                  /\ groups.features[g][j] = call.X[groups.indices[g][j] + 1]
                  /\ groups.labels[g][j] = call.y[groups.indices[g][j] + 1]

C3_Witness ==
  /\ call.op = "findSplit"
  /\ call.returned.accepted # <<>>
  /\ Len(call.X) >= 2
  /\ NumColumns(call.X) = 2

(* No two samples have equal rows and different labels. *)
Separable(X, y) ==
  \A i, j \in 1..Len(X) : X[i] = X[j] => y[i] = y[j]

(* C4: a DecisionTree with maxDepth = -1 trained on separable data         *)
(* predicts the label of every training sample.                            *)
C4_MemorizesSeparableData ==
  (/\ IsDecisionTree
   /\ self.maxDepth = -1
   /\ TrainedWith
   /\ Separable(call.X, call.y))
  => /\ call.thrown = Undefined
     /\ \A i \in 1..Len(call.X) :
          DecisionTreePredictSample(self, call.X[i]) = [type |-> "label", value |-> call.y[i]]

(* The decision tree of the configuration of a forest. *)
TreeOfForest(this) == NewDecisionTree(this.criterion, this.numFeatures, this.maxDepth)

(* The last call trained a forest of one tree without bootstrapping. *)
SingleTreeForestTrained ==
  /\ IsRandomForest
  /\ self.numTrees = 1
  /\ ~self.bootstrap
  /\ TrainedWith
  /\ call.thrown = Undefined

ProbeRows(d) == UNION {Range(X) : X \in PredictInputs(d)}

(* C5 as stated: the forest of one tree without bootstrapping predicts     *)
(* what a DecisionTree of the same configuration trained on the same data  *)
(* predicts, whatever the feature sampler drew in either training.         *)
C5_SameAsEveryDecisionTree ==
  SingleTreeForestTrained
  => \A outcome \in DecisionTreeTrain(TreeOfForest(self), call.X, call.y) :
       outcome.thrown = Undefined
       => \A x \in ProbeRows(data) :
            RandomForestPredictSample(self, x) = DecisionTreePredictSample(outcome.this, x)

(* C5 amended: the forest of one tree without bootstrapping holds one of   *)
(* the trees DecisionTree.train can produce from the same configuration    *)
(* and data, and predicts what that tree predicts.                         *)
C5_SameAsSomeDecisionTree ==
  SingleTreeForestTrained
  => \E outcome \in DecisionTreeTrain(TreeOfForest(self), call.X, call.y) :
       /\ outcome.thrown = Undefined
       /\ self.trees.values = <<outcome.this>>
       /\ \A x \in ProbeRows(data) :
            RandomForestPredictSample(self, x) = DecisionTreePredictSample(outcome.this, x)

C5_Witness ==
  /\ SingleTreeForestTrained
  /\ self.trees.values[1].tree.type = "node"
  /\ self.maxDepth = -1

(* C6: training a DecisionTree on labels that are all L gives a root that  *)
(* is a leaf predicting L with impurity 0.                                 *)
C6_SingleLabelGivesLeaf ==
  (/\ IsDecisionTree
   /\ TrainedWith
   /\ \A i \in 1..Len(call.y) : call.y[i] = call.y[1])
  => /\ call.thrown = Undefined
     /\ self.tree = [type |-> "leaf", impurity |-> Zero, prediction |-> call.y[1]]

C6_Witness ==
  /\ IsDecisionTree
  /\ TrainedWith
  /\ Len(call.y) >= 2
  /\ \A i \in 1..Len(call.y) : call.y[i] = call.y[1]
  /\ self.criterion = "entropy"
  /\ self.tree.type = "leaf"

ScenarioTree ==
  /\ IsDecisionTree
  /\ self.criterion = "gini"
  /\ self.maxDepth = -1
  /\ self.numFeatures = [kind |-> "number", quarters |-> 4]
  /\ data = ScenarioData

(* C8: on X = [[0],[1],[2],[3]], y = [0,0,1,1] train builds a root on      *)
(* feature 0 with threshold 1.5 (6 quarters), a left leaf predicting 0 and *)
(* a right leaf predicting 1, and predict([[0.5],[2.5]]) returns [0, 1].   *)
C8_Scenario ==
  ScenarioTree
  => /\ TrainedWith
        => /\ call.thrown = Undefined
           /\ self.tree.type = "node"
           /\ self.tree.feature = 0
           /\ self.tree.featureValue = 6
           /\ self.tree.left.type = "leaf"
           /\ self.tree.left.prediction = 0
           /\ self.tree.right.type = "leaf"
           /\ self.tree.right.prediction = 1
     /\ (call.op = "predict" /\ call.X = ScenarioProbe /\ IsTrained(self))
        => /\ call.thrown = Undefined
           /\ call.returned.values = <<0, 1>>

C8_Witness ==
  /\ ScenarioTree
  /\ call.op = "predict"
  /\ call.X = ScenarioProbe
  /\ IsTrained(self)
  /\ call.returned # Undefined

(* What predict gives for every array it may be called with. *)
Predictions(this) == [X \in PredictInputs(data) |-> ClassifierPredict(this, X)]

(* C9: train with X.length # y.length throws the dimension error and       *)
(* leaves the object as it was: an untrained model stays untrained, a      *)
(* trained one keeps its trees and its predictions.                        *)
C9_MismatchLeavesModelUnchanged ==
  [][(call'.op = "train" /\ Len(call'.X) # Len(call'.y))
     => /\ call'.thrown = DimensionError
        /\ self' = self
        /\ IsTrained(self') = IsTrained(self)
        /\ Predictions(self') = Predictions(self)]_vars

C9_Witness ==
  /\ call.op = "train"
  /\ Len(call.X) # Len(call.y)
  /\ call.thrown = DimensionError
  /\ IsRandomForest
  /\ IsTrained(self)
  /\ Len(self.trees.values) = 2

(* C10: predict called before any call of train throws the untrained-model *)
(* error and returns nothing.                                              *)
C10_PredictBeforeTrainThrows ==
  (call.op = "predict" /\ ~trainCalled)
  => /\ call.thrown = UntrainedError
     /\ call.returned = Undefined

C10_Witness ==
  /\ call.op = "predict"
  /\ ~trainCalled
  /\ call.thrown = UntrainedError

(* C11: DecisionTree.predictSample on an instance that has never been     *)
(* trained fails with the error predict raises on an untrained model.     *)
C11_PredictSampleBeforeTrainThrows ==
  (IsDecisionTree /\ call.op = "predictSample" /\ ~trainCalled)
  => call.thrown = UntrainedError

(* The predictions of the member trees of the forest for a sample. *)
Votes(this, sampleFeatures) ==
  [i \in 1..Len(this.trees.values) |-> Walk(this.trees.values[i].tree, sampleFeatures)]

(* The last call was predictSample or predict on a trained forest; the    *)
(* samples of the call are the rows of call.X.                            *)
ForestPredicted ==
  IsRandomForest /\ IsTrained(self) /\ call.op \in {"predictSample", "predict"}

(* What the last call returned for row i of call.X. *)
ReturnedLabel(i) ==
  IF call.op = "predict" THEN call.returned.values[i] ELSE call.returned.value

ForestTrainedWith == IsRandomForest /\ TrainedWith

(* Every (row, label) pair of the sample is (X[i], y[i]) for some i. *)
Aligned(sample, X, y) ==
  /\ Len(sample.treeX) = Len(X)
  /\ Len(sample.treeY) = Len(X)
  /\ \A j \in 1..Len(X) :
       \E i \in 1..Len(X) : sample.treeX[j] = X[i] /\ sample.treeY[j] = y[i]

(* The member tree is what DecisionTree.train stores for the sample. *)
TrainedOn(tree, this, sample) ==
  \E outcome \in DecisionTreeTrain(TreeOfForest(this), sample.treeX, sample.treeY) :
    outcome.thrown = Undefined /\ outcome.this = tree

(* C13: in RandomForest.train with bootstrap every member tree is trained *)
(* on len(X) pairs (X[i], y[i]) of the original data, rows and labels     *)
(* aligned; without bootstrap every member tree is trained on (X, y) in   *)
(* the original order.                                                    *)
C13_TreesTrainedOnAlignedSamples ==
  ForestTrainedWith
  => LET samples == TreeSamples(self, call.X, call.y) IN
       /\ \A sample \in samples : Aligned(sample, call.X, call.y)
       /\ ~self.bootstrap => samples = {[treeX |-> call.X, treeY |-> call.y]}
       /\ \A k \in 1..Len(self.trees.values) :
            \E sample \in samples : TrainedOn(self.trees.values[k], self, sample)

(* A bootstrap forest of unlimited depth, trained on labels of two        *)
(* classes, whose first tree is a leaf: the tree was trained on a sample  *)
(* that repeats rows of one class only.                                   *)
C13_Witness ==
  /\ ForestTrainedWith
  /\ call.thrown = Undefined
  /\ self.bootstrap
  /\ self.maxDepth = -1
  /\ Range(call.y) = {0, 1}
  /\ Len(self.trees.values) = 2
  /\ self.trees.values[1].tree.type = "leaf"
  /\ self.trees.values[2].tree.type = "node"

(* C14: after RandomForest.train returns normally the forest holds        *)
(* exactly numTrees member trees, each with a root and each constructed   *)
(* with the criterion, numFeatures and maxDepth of the forest.            *)
C14_NumTreesTrainedTrees ==
  (ForestTrainedWith /\ call.thrown = Undefined)
  => /\ self.trees # Undefined
     /\ Len(self.trees.values) = self.numTrees
     /\ \A k \in 1..Len(self.trees.values) :
          LET tree == self.trees.values[k] IN
            /\ tree.class = "DecisionTree"
            /\ tree.tree # Undefined
            /\ tree.criterion = self.criterion
            /\ tree.numFeatures = self.numFeatures
            /\ tree.maxDepth = self.maxDepth

(* A forest of two trees of depth limit 0 and criterion 'entropy' has     *)
(* returned from train.                                                   *)
C14_Witness ==
  /\ ForestTrainedWith
  /\ call.thrown = Undefined
  /\ self.numTrees = 2
  /\ self.maxDepth = 0
  /\ self.criterion = "entropy"
  /\ Len(self.trees.values) = 2

(* The last call was train on a decision tree and it returned normally.   *)
TreeTrained == IsDecisionTree /\ TrainedWith /\ call.thrown = Undefined

(* The labels are all of one class. *)
SingleClass(labels) ==
  labels # <<>> /\ \A i \in 1..Len(labels) : labels[i] = labels[1]

(* The groups buildTree passed to the children of an internal node that   *)
(* was built from (XSub, ySub).                                           *)
GroupsOf(node, XSub, ySub) == SplitSamples(XSub, ySub, node.feature, node.featureValue)

(* In the subtree built from the labels ySub, every node that was built   *)
(* from labels of a single class stores impurity 0 and is a leaf.         *)
RECURSIVE PureGroupsHaveZeroImpurity(_, _, _)
PureGroupsHaveZeroImpurity(node, XSub, ySub) ==
  /\ SingleClass(ySub) => node.impurity = Zero /\ node.type = "leaf"
  /\ node.type = "node"
     => LET groups == GroupsOf(node, XSub, ySub) IN
          /\ PureGroupsHaveZeroImpurity(node.left, groups.features[1], groups.labels[1])
          /\ PureGroupsHaveZeroImpurity(node.right, groups.features[2], groups.labels[2])

(* C15: for a non-empty group of labels of a single class, the impurity   *)
(* calculateImpurity([group]) is exactly 0 for 'gini' and for 'entropy',  *)
(* so the test impurity === 0 of buildTree makes the node a leaf.  Stated *)
(* of the impurity buildTree stores in every node of a trained tree, and  *)
(* of both criteria applied to every group of single class it was given.  *)
C15_PureGroupHasZeroImpurity ==
  TreeTrained
  => /\ PureGroupsHaveZeroImpurity(self.tree, call.X, call.y)
     /\ self.tree.type = "node"
        => \A g \in 1..2 :
             LET group == GroupsOf(self.tree, call.X, call.y).labels[g] IN
               SingleClass(group)
               => \A criterion \in Criteria :
                    CalculateImpurity([self EXCEPT !.criterion = criterion], <<group>>) = Zero

(* An 'entropy' tree whose root split gave a group of two labels of one   *)
(* class, stored as a leaf of impurity 0.                                 *)
C15_Witness ==
  /\ TreeTrained
  /\ self.criterion = "entropy"
  /\ self.tree.type = "node"
  /\ LET group == GroupsOf(self.tree, call.X, call.y).labels[1] IN
       /\ Len(group) >= 2
       /\ SingleClass(group)
       /\ self.tree.left.type = "leaf"
       /\ self.tree.left.impurity = Zero

(* The number of nodes on the longest path from the node to a leaf. *)
RECURSIVE TreeDepth(_)
TreeDepth(node) ==
  IF node.type = "node" THEN 1 + Max(TreeDepth(node.left), TreeDepth(node.right))
  ELSE 1

C17_EmitReturnsWhetherExecuted ==
  (canvasCall.op = "emit" /\ canvasCall.thrown = Undefined)
  => (canvasCall.returned.value <=> canvasCall.executed # <<>>)

(* The split of candidate i of the findSplit call, and its gain. *)
CandidateGroups(candidates, i) ==
  SplitSamples(call.X, call.y, candidates[i][1], candidates[i][2])

CandidateGain(candidates, i) ==
  FracSub(CalculateImpurity(self, <<call.y>>),
          CalculateImpurity(self, CandidateGroups(candidates, i).labels))

(* The candidates whose split leaves no group empty. *)
ValidCandidates(candidates) ==
  {i \in 1..Len(candidates) :
     /\ Len(CandidateGroups(candidates, i).features[1]) > 0
     /\ Len(CandidateGroups(candidates, i).features[2]) > 0}

(* Candidate i has the largest gain of the valid candidates and is the    *)
(* first with that gain.                                                  *)
IsFirstBest(candidates, i) ==
  /\ i \in ValidCandidates(candidates)
  /\ \A j \in ValidCandidates(candidates) :
       /\ ~FracLess(CandidateGain(candidates, i), CandidateGain(candidates, j))
       /\ j < i => FracLess(CandidateGain(candidates, j), CandidateGain(candidates, i))

(* C18: when a valid candidate exists, findSplit returns the (feature,    *)
(* threshold) pair whose gain, baseImpurity minus the weighted impurity   *)
(* of the two label groups, is the largest over the thresholds of all     *)
(* sampled features, and of the pairs with that gain the first in the     *)
(* iteration over the features in sampled order and the thresholds in     *)
(* ascending order.                                                       *)
C18_FirstCandidateOfLargestGain ==
  call.op = "findSplit"
  => LET candidates == SplitCandidates(call.X, call.returned.fIndices) IN
       ValidCandidates(candidates) # {}
       => /\ call.returned.accepted # <<>>
          /\ \E i \in 1..Len(candidates) :
               /\ IsFirstBest(candidates, i)
               /\ call.returned.accepted[1].feature = candidates[i][1]
               /\ call.returned.accepted[1].featureValue = candidates[i][2]
               /\ call.returned.accepted[1].groups = CandidateGroups(candidates, i)

(* Feature 1 was sampled before feature 0, a threshold of each has the    *)
(* largest gain, and the threshold of feature 1 is returned.              *)
C18_Witness ==
  /\ call.op = "findSplit"
  /\ call.returned.fIndices = <<1, 0>>
  /\ call.returned.accepted # <<>>
  /\ call.returned.accepted[1].feature = 1
  /\ LET candidates == SplitCandidates(call.X, call.returned.fIndices) IN
       \E i, j \in ValidCandidates(candidates) :
         /\ i < j
         /\ candidates[j][1] = 0
         /\ IsFirstBest(candidates, i)
         /\ CandidateGain(candidates, j) = CandidateGain(candidates, i)

(* The values of feature fInd present in the samples. *)
ValuesPresent(X, fInd) == {X[i][fInd + 1] : i \in 1..Len(X)}

(* a < b are values present with no value present between them. *)
Consecutive(values, a, b) ==
  /\ a \in values
  /\ b \in values
  /\ a < b
  /\ \A v \in values : ~(a < v /\ v < b)

(* The thresholds are the midpoints of the consecutive values present, in *)
(* ascending order, one for each pair.                                    *)
AreMidpoints(thresholds, values) ==
  /\ Len(thresholds) = Cardinality(values) - 1
  /\ \A i \in 1..(Len(thresholds) - 1) : thresholds[i] < thresholds[i + 1]
  /\ \A i \in 1..Len(thresholds) :
       \E a, b \in values :
         /\ Consecutive(values, a, b)
         /\ 2 * thresholds[i] = a + b
         /\ a < thresholds[i]
         /\ thresholds[i] < b

(* C19: in findSplit the candidate thresholds of a sampled feature with k *)
(* distinct values among the samples are the k - 1 midpoints of           *)
(* consecutive distinct values in ascending order, none for k = 1; each   *)
(* lies strictly between two values present, so splitting on it leaves a  *)
(* sample on each side.  The accepted threshold is one of them.           *)
C19_ThresholdsAreMidpoints ==
  call.op = "findSplit"
  => /\ \A n \in 1..Len(call.returned.fIndices) :
          LET fInd == call.returned.fIndices[n]
              thresholds == SplitValues(call.X, fInd)
          IN /\ AreMidpoints(thresholds, ValuesPresent(call.X, fInd))
             /\ \A i \in 1..Len(thresholds) :
                  LET groups == SplitSamples(call.X, call.y, fInd, thresholds[i]) IN
                    Len(groups.features[1]) >= 1 /\ Len(groups.features[2]) >= 1
     /\ call.returned.accepted # <<>>
        => \E i \in 1..Len(SplitValues(call.X, call.returned.accepted[1].feature)) :
             SplitValues(call.X, call.returned.accepted[1].feature)[i]
               = call.returned.accepted[1].featureValue

(* findSplit has sampled feature 0, which has three distinct values among *)
(* the samples and two thresholds, and feature 1, which has one distinct  *)
(* value and no threshold.                                                *)
C19_Witness ==
  /\ call.op = "findSplit"
  /\ \E n \in 1..Len(call.returned.fIndices) :
       /\ call.returned.fIndices[n] = 0
       /\ Cardinality(ValuesPresent(call.X, 0)) >= 3
       /\ Len(SplitValues(call.X, 0)) = Cardinality(ValuesPresent(call.X, 0)) - 1
  /\ \E n \in 1..Len(call.returned.fIndices) :
       /\ call.returned.fIndices[n] = 1
       /\ Cardinality(ValuesPresent(call.X, 1)) = 1
       /\ SplitValues(call.X, 1) = <<>>

(* In the subtree node of the tree root, built from the samples (XSub,    *)
(* ySub): at an internal node a sample is in the left group exactly when  *)
(* its value at the node's feature is below the node's threshold, and in  *)
(* the right group otherwise, and predictSample's test sends it the same  *)
(* way; at a leaf predictSample, walking from the root, returns the       *)
(* leaf's prediction for every sample of the leaf.                        *)
RECURSIVE RoutingAgrees(_, _, _, _)
RoutingAgrees(root, node, XSub, ySub) ==
  IF node.type = "node"
  THEN LET groups == GroupsOf(node, XSub, ySub) IN
         /\ \A i \in 1..Len(XSub) :
              LET inLeft == (i - 1) \in Range(groups.indices[1])
                  inRight == (i - 1) \in Range(groups.indices[2])
              IN /\ inLeft <=> XSub[i][node.feature + 1] < node.featureValue
                 /\ inRight <=> ~inLeft
                 /\ inLeft <=> FeatureLess(XSub[i], node.feature, node.featureValue)
         /\ RoutingAgrees(root, node.left, groups.features[1], groups.labels[1])
         /\ RoutingAgrees(root, node.right, groups.features[2], groups.labels[2])
  ELSE \A i \in 1..Len(XSub) : Walk(root, XSub[i]) = node.prediction

(* C20: in a trained tree, at every internal node, a training sample that *)
(* reached the node was placed in the left child's group if and only if   *)
(* its value at the node's feature is strictly less than the node's       *)
(* threshold, and predictSample routes the sample to the same child.      *)
C20_TrainingAndPredictionRouteAlike ==
  TreeTrained => RoutingAgrees(self.tree, self.tree, call.X, call.y)

(* A trained tree with an internal node below the root, and samples in    *)
(* both groups of the root.                                               *)
C20_Witness ==
  /\ TreeTrained
  /\ self.tree.type = "node"
  /\ self.tree.left.type = "node" \/ self.tree.right.type = "node"
  /\ Len(call.X) = 4

(* C21: RandomForest.train is all-or-nothing: a forest that predict       *)
(* accepts holds the complete result of a train call, exactly numTrees    *)
(* trees, never an empty or partial list left by a train call that threw. *)
C21_TrainIsAllOrNothing ==
  (IsRandomForest /\ IsTrained(self))
  => Len(self.trees.values) = self.numTrees

(* C22: every label that predict returns, on a model for which it does    *)
(* not throw the untrained error, occurs in the labels the model was      *)
(* trained on, for every configuration including numTrees = 0.            *)
C22_PredictedLabelsAreTrainingLabels ==
  (call.op = "predict" /\ call.thrown = Undefined)
  => \A i \in 1..Len(call.returned.values) :
       call.returned.values[i] \in Range(data.y)

(* A step that calls buildTree for the two groups gives each of them at   *)
(* least one sample and fewer samples than the call had, one level down.  *)
ChildrenAreSmaller ==
  Len(frames') > Len(frames)
  => \A k \in 1..2 :
       /\ Len(frames'[k].XSub) >= 1
       /\ Len(frames'[k].XSub) < Len(frames[1].XSub)
       /\ Len(frames'[k].ySub) = Len(frames'[k].XSub)
       /\ frames'[k].depth = frames[1].depth + 1

(* The depth of every pending call is below the number of samples. *)
DepthBelowSamples ==
  \A k \in 1..Len(frames) :
    /\ frames[k].depth < Len(data.X)
    /\ frames[k].depth + Len(frames[k].XSub) <= Len(data.X)

(* C23: DecisionTree.train on a finite non-empty training set terminates, *)
(* with a tree or an error: every call of buildTree on a child gets fewer *)
(* samples than its parent, the depth of the recursion stays below the    *)
(* number of training samples, and the pending calls run out.             *)
C23_BuildTreeTerminates ==
  /\ [][ChildrenAreSmaller]_vars
  /\ []DepthBelowSamples
  /\ <>(frames = <<>> /\ build.status \in {"returned", "thrown"})

(* A recursion of five calls, three of them two levels down, has returned. *)
C23_Witness ==
  /\ build.status = "returned"
  /\ frames = <<>>
  /\ build.calls >= 5
  /\ self.maxDepth = -1

====
